---- MODULE Spec2Model ----
(***************************************************************************)
(* Model of Scripts/staging_gfal2/state.py: the script that converts the   *)
(* URLs of a file to SURLs, asks the storage backend for the 'user.status' *)
(* attribute of each of them in batches separated by a sleep, and prints   *)
(* the percentage of staged files.                                         *)
(*                                                                         *)
(* Python strings are TLA+ strings (Len, \o and SubSeq act on them), lists *)
(* are sequences, and a tuple is a sequence.  Python's 0-based slice       *)
(* a[lo:hi] is SubSeq(a, lo + 1, hi).  An exception that nothing catches   *)
(* ends the run: pc = "raised" and err names the exception.                *)
(*                                                                         *)
(* The imports of lines 17-20 (pythonpath, sys, time, Counter) are taken   *)
(* to succeed and sys.argv[1] to be given; import gfal2 may fail.          *)
(*                                                                         *)
(* The value of (float(staged)/total_files)*100 is kept as the exact       *)
(* quotient <<numerator, denominator>>; the rounding of binary floating    *)
(* point and the digits str() prints for it are not modelled.              *)
(***************************************************************************)
EXTENDS Integers, Sequences, FiniteSets, TLC

VARIABLES
    pc,          \* position of the run
    err,         \* the uncaught exception that ended the run, "" if none
    gfal2,       \* the module-level name gfal2: "unbound", "module" or "undefined"
    fileText,    \* the text of the file named by sys.argv[1]
    backend,     \* the backend's 'user.status' attribute of each SURL
    contextOk,   \* whether gfal2.creat_context() succeeds in this run
    urls,        \* convert_to_surl: urls
    surls,       \* the list of SURLs (convert_to_surl's result, check_status_list's argument)
    verbose,     \* the verbose argument
    results,     \* check_status_list: results; percent_staged's argument
    i,           \* check_status_list: i
    s,           \* check_status_list: s, the current batch
    n,           \* check_status_list: how many elements of s the for loop has taken
    sc,          \* check_status_list: sc; check_status's argument surl
    ret,         \* the value check_status returned to a direct caller
    percent,     \* percent_staged: percent
    out,         \* the lines printed to the terminal
    queries,     \* the getxattr calls issued to the backend, in order: <<SURL, key>>
    pauses,      \* how many times time.sleep(1) was called
    sincePause   \* how many queries were issued since the last time.sleep(1)

vars == <<pc, err, gfal2, fileText, backend, contextOk, urls, surls, verbose, results, i, s,
          n, sc, ret, percent, out, queries, pauses, sincePause>>

-----------------------------------------------------------------------------
(* Bounds of the model *)

\* the input lengths are b * nf + d for b in 0..MaxBatches, d in -MaxDelta..MaxDelta
MaxBatches == 1
MaxDelta == 1
\* percent_staged called directly: the longest list of results
MaxResults == 3

-----------------------------------------------------------------------------
(* Program constants *)

nf == 100

Marker == "/pnfs"
SrmPrefix == "srm://srm.grid.sara.nl:8443"
StatusKey == "user.status"
Green == "\\033[32m"
Red == "\\033[31m"
Reset == "\\033[0m"
ImportMessage == "GFAL2 LIBRARY CANNOT BE IMPORTED"
SummaryText == " percent of files staged"

-----------------------------------------------------------------------------
(* Python's built-ins, as the script uses them *)

Min(a, b) == IF a < b THEN a ELSE b

IsSpace(c) == c \in {" ", "\t", "\n", "\r", "\f"}

CharAt(str, p) == SubSeq(str, p, p)

\* the first position in p..hi of str that holds white space; hi + 1 if none
RECURSIVE SpaceFrom(_, _, _)
SpaceFrom(str, p, hi) ==
    IF p > hi THEN hi + 1
    ELSE IF IsSpace(CharAt(str, p)) THEN p
    ELSE SpaceFrom(str, p + 1, hi)

\* the last position in lo..p of str that holds white space; lo - 1 if none
RECURSIVE SpaceBefore(_, _, _)
SpaceBefore(str, p, lo) ==
    IF p < lo THEN lo - 1
    ELSE IF IsSpace(CharAt(str, p)) THEN p
    ELSE SpaceBefore(str, p - 1, lo)

\* str.split() of the characters lo..hi of str: its maximal runs of non-space,
\* in order.  The range is cut at a white space near its middle.
RECURSIVE SplitRange(_, _, _)
SplitRange(str, lo, hi) ==
    IF lo > hi THEN <<>>
    ELSE LET mid == (lo + hi) \div 2
             e == SpaceFrom(str, mid, hi)
             b == SpaceBefore(str, mid - 1, lo) + 1
         IN  IF e > hi
             THEN SplitRange(str, lo, b - 2) \o <<SubSeq(str, b, hi)>>
             ELSE SplitRange(str, lo, e - 1) \o SplitRange(str, e + 1, hi)

\* str.split()
Split(str) == SplitRange(str, 1, Len(str))

\* str.find(sub), 1-based: the first position >= p where sub occurs, 0 if none
RECURSIVE FindFrom(_, _, _)
FindFrom(str, sub, p) ==
    IF p + Len(sub) - 1 > Len(str) THEN 0
    ELSE IF SubSeq(str, p, p + Len(sub) - 1) = sub THEN p
    ELSE FindFrom(str, sub, p + 1)

Find(str, sub) == FindFrom(str, sub, 1)

\* as SplitHead, but cut at the last sep
SplitHeadAtLast(str, sep) ==
    LET hits == {p \in 1..(Len(str) - Len(sep) + 1) :
                        SubSeq(str, p, p + Len(sep) - 1) = sep}
    IN  IF hits = {} THEN str
        ELSE SubSeq(str, 1, (CHOOSE p \in hits : \A q \in hits : q <= p) - 1)

\* str.split(sep)[0]: the text before the first sep, all of str if sep is absent
SplitHead(str, sep) ==
    LET p == Find(str, sep)
    IN  IF p = 0 THEN str ELSE SubSeq(str, 1, p - 1)

\* str.replace(old, new, 1): the first occurrence of old replaced by new
\* (an empty old occurs at the very start)
ReplaceFirst(str, old, new) ==
    LET p == Find(str, old)
    IN  IF p = 0 THEN str
        ELSE SubSeq(str, 1, p - 1) \o new \o SubSeq(str, p + Len(old), Len(str))

\* as Slice, without the last element
SliceDroppingLast(a, lo, hi) == SubSeq(a, lo + 1, hi - 1)

\* Python's slice a[lo:hi], for 0 <= lo <= hi <= len(a)
Slice(a, lo, hi) == SubSeq(a, lo + 1, hi)

-----------------------------------------------------------------------------
(* convert_to_surl *)

\* the body of the for loop: one url to its SURL
SurlOf(url) ==
    LET temp == SplitHead(url, Marker)
    IN  ReplaceFirst(url, temp, SrmPrefix)

\* the for loop over urls
ConvertAll(us) == [j \in 1..Len(us) |-> SurlOf(us[j])]

-----------------------------------------------------------------------------
(* check_status *)

\* line 65: the colour of a status
ColorOf(status) ==
    IF status = "ONLINE_AND_NEARLINE" \/ status = "ONLINE" THEN Green ELSE Red

\* line 69: the line printed for a SURL and its status
StatusLine(surl, color, status) == surl \o " " \o color \o status \o Reset

\* line 63: the attribute asked of the backend: the SURL and the key
Query(surl) == <<surl, StatusKey>>

\* as the result pair, the two the other way round
SwappedPair(surl, status) == <<status, surl>>

\* line 70: the tuple check_status returns
ResultPair(surl, status) == <<surl, status>>

(* What one call of check_status(surl, verbose) does.  ctxOk: creat_context()   *)
(* succeeds; lookupOk: getxattr returns (it raises otherwise); status: the      *)
(* string it returns.  The result names the exception raised ("" if none),      *)
(* whether the backend was asked, the lines printed and the value returned.     *)
check_status(surl, verb, module, ctxOk, lookupOk, status) ==
    IF module # "module" THEN
        \* line 62: the name gfal2 is not defined
        [raised |-> "NameError", asked |-> FALSE, printed |-> <<>>, value |-> <<>>]
    ELSE IF ~ctxOk THEN
        \* line 62: creat_context() raises
        [raised |-> "GError:creat_context", asked |-> FALSE, printed |-> <<>>,
         value |-> <<>>]
    ELSE IF ~lookupOk THEN
        \* line 63: getxattr raises
        [raised |-> "GError:getxattr", asked |-> TRUE, printed |-> <<>>, value |-> <<>>]
    ELSE IF ~verb THEN
        \* line 69: color was never assigned
        [raised |-> "UnboundLocalError", asked |-> TRUE, printed |-> <<>>,
         value |-> <<>>]
    ELSE
        [raised |-> "", asked |-> TRUE,
         printed |-> <<StatusLine(surl, ColorOf(status), status)>>,
         value |-> ResultPair(surl, status)]

-----------------------------------------------------------------------------
(* percent_staged *)

\* collections.Counter over the statuses: counts[key], 0 for a key never seen
CountOf(res, key) == Cardinality({j \in 1..Len(res) : res[j][2] = key})

\* as Staged, counting the tape-only files too
StagedWithNearline(res) ==
    CountOf(res, "ONLINE_AND_NEARLINE") + CountOf(res, "ONLINE")
        + CountOf(res, "NEARLINE")

\* line 102
Staged(res) == CountOf(res, "ONLINE_AND_NEARLINE") + CountOf(res, "ONLINE")

\* line 103 (the value is never used)
Unstaged(res) == CountOf(res, "NEARLINE ")

\* line 104: (float(staged)/total_files)*100, as the quotient <<numerator, denominator>>
PercentOf(staged, total_files) == <<staged * 100, total_files>>

-----------------------------------------------------------------------------
(* The inputs and the environment *)

\* URLs a file may hold: a bare path, another scheme, the marker twice, no marker
RawUrls == <<"/pnfs/a/file1", "gsiftp://host/pnfs/b/file2",
             "srm://h/pnfs/c/pnfs/d", "file3">>

\* values of the 'user.status' attribute
Statuses == <<"ONLINE", "NEARLINE", "ONLINE_AND_NEARLINE", "UNAVAILABLE">>

\* how many URLs a file may hold: around the batch boundaries
Lengths ==
    {k \in 0..(MaxBatches * nf + MaxDelta) :
        \E b \in 0..MaxBatches : \E d \in (0 - MaxDelta)..MaxDelta : k = b * nf + d}

\* a list of k URLs: one URL k times (stride 0) or the URLs in turn (stride 1),
\* from any first one
InputUrls(k, start, stride) ==
    [j \in 1..k |-> RawUrls[((start + (j - 1) * stride) % Len(RawUrls)) + 1]]

\* the text of a file holding the URLs us[lo..hi], each preceded by lead and
\* followed by trail
RECURSIVE TextOf(_, _, _, _, _)
TextOf(us, lo, hi, lead, trail) ==
    IF lo > hi THEN ""
    ELSE IF lo = hi THEN lead \o us[lo] \o trail
    ELSE LET mid == (lo + hi) \div 2
         IN  TextOf(us, lo, mid, lead, trail) \o TextOf(us, mid + 1, hi, lead, trail)

\* one URL per line, or URLs between blanks and tabs and an empty last line
Layouts == {<<"", "\n">>, <<" \t", " ">>}

FileTexts ==
    {TextOf(InputUrls(k, c[1], c[2]), 1, k, l[1], l[2]) \o l[1] :
        k \in Lengths, c \in (0..(Len(RawUrls) - 1)) \X {0, 1},
        l \in Layouts}

SurlSet == {SurlOf(RawUrls[j]) : j \in 1..Len(RawUrls)}

\* the attribute of every SURL: each backend gives the SURLs different statuses
Backends ==
    {[u \in SurlSet |->
        Statuses[(((CHOOSE j \in 1..Len(RawUrls) : SurlOf(RawUrls[j]) = u) + shift)
                    % Len(Statuses)) + 1]] : shift \in 0..(Len(Statuses) - 1)}

\* lists of at most MaxResults results
ResultLists ==
    UNION {[1..k -> {ResultPair(SurlOf(RawUrls[1]), Statuses[j]) : j \in 1..Len(Statuses)}
                    \cup {ResultPair(SurlOf(RawUrls[2]), "NEARLINE ")}] :
           k \in 0..MaxResults}

-----------------------------------------------------------------------------
(* The script run as __main__ *)

Init ==
    /\ pc = "import"
    /\ err = ""
    /\ gfal2 = "unbound"
    /\ fileText \in FileTexts
    /\ backend \in Backends
    /\ contextOk \in BOOLEAN
    /\ urls = <<>>
    /\ surls = <<>>
    /\ verbose = TRUE
    /\ results = <<>>
    /\ i = 0
    /\ s = <<>>
    /\ n = 0
    /\ sc = ""
    /\ ret = <<>>
    /\ percent = <<>>
    /\ out = <<>>
    /\ queries = <<>>
    /\ pauses = 0
    /\ sincePause = 0

\* an uncaught exception ends the run
Raise(e) == pc' = "raised" /\ err' = e

\* lines 22-26: import gfal2; an ImportError is printed and passed over
ImportGfal2 ==
    /\ pc = "import"
    /\ \E importable \in BOOLEAN :
        IF importable
        THEN gfal2' = "module" /\ out' = out
        ELSE gfal2' = "undefined" /\ out' = Append(out, ImportMessage)
    /\ pc' = "main"
    /\ UNCHANGED <<err, fileText, backend, contextOk, urls, surls, verbose, results, i, s, n, sc,
                   ret, percent, queries, pauses, sincePause>>

\* lines 111-112 and 84-91: surls = convert_to_surl(files)
ConvertToSurl ==
    /\ pc = "main"
    /\ \E readable \in BOOLEAN :
        IF readable
        THEN /\ urls' = Split(fileText)
             /\ surls' = ConvertAll(urls')
             /\ pc' = "check_status_list"
             /\ err' = err
        ELSE /\ Raise("IOError")
             /\ UNCHANGED <<urls, surls>>
    /\ UNCHANGED <<gfal2, fileText, backend, contextOk, verbose, results, i, s, n, sc, ret,
                   percent, out, queries, pauses, sincePause>>

\* lines 113 and 37-40: check_status_list(surls) is entered
CheckStatusListEnter ==
    /\ pc = "check_status_list"
    /\ results' = <<>>
    /\ i' = 0
    /\ pc' = "while"
    /\ UNCHANGED <<err, gfal2, fileText, backend, contextOk, urls, surls, verbose, s, n, sc, ret,
                   percent, out, queries, pauses, sincePause>>

\* lines 41-43: the while test holds, the next batch is cut
WhileBody ==
    /\ pc = "while"
    /\ i < Len(surls)
    /\ s' = Slice(surls, i, Min(i + nf, Len(surls)))
    /\ n' = 0
    /\ pc' = "for"
    /\ UNCHANGED <<err, gfal2, fileText, backend, contextOk, urls, surls, verbose, results, i, sc,
                   ret, percent, out, queries, pauses, sincePause>>

\* lines 41 and 48: the while test fails, results is returned to line 113
WhileExit ==
    /\ pc = "while"
    /\ ~(i < Len(surls))
    /\ pc' = "percent_staged"
    /\ UNCHANGED <<err, gfal2, fileText, backend, contextOk, urls, surls, verbose, results, i, s,
                   n, sc, ret, percent, out, queries, pauses, sincePause>>

\* as ForBody, with the failure of a lookup caught and the loop going on
ForBodyCatching ==
    /\ pc = "for"
    /\ n < Len(s)
    /\ sc' = s[n + 1]
    /\ n' = n + 1
    /\ \E lookupOk \in BOOLEAN :
        LET r == check_status(sc', verbose, gfal2, contextOk, lookupOk, backend[sc'])
        IN  /\ queries' = IF r.asked THEN Append(queries, Query(sc')) ELSE queries
            /\ sincePause' = IF r.asked THEN sincePause + 1 ELSE sincePause
            /\ out' = out \o r.printed
            /\ results' = IF r.raised = "" THEN Append(results, r.value) ELSE results
            /\ pc' = pc
            /\ err' = err
    /\ UNCHANGED <<gfal2, fileText, backend, contextOk, urls, surls, verbose, i, s, ret, percent,
                   pauses>>

\* lines 44-45: the for loop takes the next SURL of the batch and calls check_status
ForBody ==
    /\ pc = "for"
    /\ n < Len(s)
    /\ sc' = s[n + 1]
    /\ n' = n + 1
    /\ \E lookupOk \in BOOLEAN :
        LET r == check_status(sc', verbose, gfal2, contextOk, lookupOk, backend[sc'])
        IN  /\ queries' = IF r.asked THEN Append(queries, Query(sc')) ELSE queries
            /\ sincePause' = IF r.asked THEN sincePause + 1 ELSE sincePause
            /\ out' = out \o r.printed
            /\ IF r.raised = ""
               THEN results' = Append(results, r.value) /\ pc' = pc /\ err' = err
               ELSE results' = results /\ Raise(r.raised)
    /\ UNCHANGED <<gfal2, fileText, backend, contextOk, urls, surls, verbose, i, s, ret, percent,
                   pauses>>

\* line 46: the batch is exhausted
ForEnd ==
    /\ pc = "for"
    /\ ~(n < Len(s))
    /\ i' = i + nf
    /\ pc' = "sleep"
    /\ UNCHANGED <<err, gfal2, fileText, backend, contextOk, urls, surls, verbose, results, s, n,
                   sc, ret, percent, out, queries, pauses, sincePause>>

\* as Sleep, without the pause once the last batch is done
SleepUnlessLast ==
    /\ pc = "sleep"
    /\ pauses' = IF i < Len(surls) THEN pauses + 1 ELSE pauses
    /\ sincePause' = IF i < Len(surls) THEN 0 ELSE sincePause
    /\ pc' = "while"
    /\ UNCHANGED <<err, gfal2, fileText, backend, contextOk, urls, surls, verbose, results, i, s,
                   n, sc, ret, percent, out, queries>>

\* line 47: time.sleep(1)
Sleep ==
    /\ pc = "sleep"
    /\ pauses' = pauses + 1
    /\ sincePause' = 0
    /\ pc' = "while"
    /\ UNCHANGED <<err, gfal2, fileText, backend, contextOk, urls, surls, verbose, results, i, s,
                   n, sc, ret, percent, out, queries>>

\* lines 114 and 100-106: percent = percent_staged(results)
PercentStaged ==
    /\ pc = "percent_staged"
    /\ LET total_files == Len(results)
           staged == Staged(results)
           unstaged == Unstaged(results)
       IN  IF total_files = 0
           THEN /\ Raise("ZeroDivisionError")
                /\ UNCHANGED <<percent, out>>
           ELSE /\ percent' = PercentOf(staged, total_files)
                /\ out' = Append(out, <<percent', SummaryText>>)
                /\ pc' = "exit"
                /\ err' = err
    /\ UNCHANGED <<gfal2, fileText, backend, contextOk, urls, surls, verbose, results, i, s, n, sc,
                   ret, queries, pauses, sincePause>>

Next ==
    \/ ImportGfal2
    \/ ConvertToSurl
    \/ CheckStatusListEnter
    \/ WhileBody
    \/ WhileExit
    \/ ForBody
    \/ ForEnd
    \/ Sleep
    \/ PercentStaged

Spec == Init /\ [][Next]_vars

-----------------------------------------------------------------------------
(* check_status called by an importing program, as its docstring shows *)

InitStatus ==
    /\ pc = "check_status"
    /\ err = ""
    /\ gfal2 \in {"module", "undefined"}
    /\ fileText = ""
    /\ backend \in Backends
    /\ contextOk \in BOOLEAN
    /\ urls = <<>>
    /\ surls = <<>>
    /\ verbose \in BOOLEAN
    /\ results = <<>>
    /\ i = 0
    /\ s = <<>>
    /\ n = 0
    /\ sc \in SurlSet
    /\ ret = <<>>
    /\ percent = <<>>
    /\ out = <<>>
    /\ queries = <<>>
    /\ pauses = 0
    /\ sincePause = 0

\* lines 50-70: check_status(sc, verbose), the value returned kept in ret
CheckStatusCall ==
    /\ pc = "check_status"
    /\ \E lookupOk \in BOOLEAN :
        LET r == check_status(sc, verbose, gfal2, contextOk, lookupOk, backend[sc])
        IN  /\ queries' = IF r.asked THEN Append(queries, Query(sc)) ELSE queries
            /\ sincePause' = IF r.asked THEN sincePause + 1 ELSE sincePause
            /\ out' = out \o r.printed
            /\ IF r.raised = ""
               THEN ret' = r.value /\ pc' = "returned" /\ err' = err
               ELSE ret' = ret /\ Raise(r.raised)
    /\ UNCHANGED <<gfal2, fileText, backend, contextOk, urls, surls, verbose, results, i,
                   s, n, sc, percent, pauses>>

NextStatus == CheckStatusCall

SpecStatus == InitStatus /\ [][NextStatus]_vars

-----------------------------------------------------------------------------
(* percent_staged called with a list of results *)

InitPercent ==
    /\ pc = "percent_staged"
    /\ err = ""
    /\ gfal2 = "module"
    /\ fileText = ""
    /\ backend \in Backends
    /\ contextOk = TRUE
    /\ urls = <<>>
    /\ surls = <<>>
    /\ verbose = TRUE
    /\ results \in ResultLists
    /\ i = 0
    /\ s = <<>>
    /\ n = 0
    /\ sc = ""
    /\ ret = <<>>
    /\ percent = <<>>
    /\ out = <<>>
    /\ queries = <<>>
    /\ pauses = 0
    /\ sincePause = 0

NextPercent == PercentStaged

SpecPercent == InitPercent /\ [][NextPercent]_vars

-----------------------------------------------------------------------------
(* Properties *)

\* check_status_list has returned its results to line 113
ListReturned ==
    \/ pc \in {"percent_staged", "exit"}
    \/ pc = "raised" /\ err = "ZeroDivisionError"

\* the least number of batches of 100 that hold k URLs
Batches(k) == (k + 99) \div 100

\* the positions of str where "/pnfs" starts
MarkerAt(str) == {p \in 1..(Len(str) - 4) : SubSeq(str, p, p + 4) = "/pnfs"}

\* the text of str from the first "/pnfs" on
FromMarker(str) ==
    SubSeq(str, CHOOSE p \in MarkerAt(str) : \A q \in MarkerAt(str) : p <= q, Len(str))

\* C1: when check_status_list returns, it has issued exactly one status query
\* per URL of its list and has paused exactly ceil(K/100) times, K the length
\* of the list (no query and no pause for the empty list).
C1_QueriesAndPauses ==
    ListReturned =>
        /\ Len(queries) = Len(surls)
        /\ \A j \in 1..Len(queries) : queries[j][2] = "user.status"
        /\ pauses = Batches(Len(surls))
        /\ (Len(surls) = 0 => queries = <<>> /\ pauses = 0)

C1_Witness ==
    /\ ListReturned
    /\ Len(surls) = 101
    /\ Len(queries) = 101
    /\ pauses = 2

\* C2: the list check_status_list returns is as long as its argument, and its
\* i-th element is the pair of the i-th SURL and the status the backend holds
\* for it; the backend was asked for the SURLs once each, in the order of the list.
C2_ResultsInOrder ==
    ListReturned =>
        /\ Len(results) = Len(surls)
        /\ \A j \in 1..Len(surls) : results[j] = <<surls[j], backend[surls[j]]>>
        /\ queries = [j \in 1..Len(surls) |-> <<surls[j], "user.status">>]

C2_Witness ==
    /\ ListReturned
    /\ Len(results) = 101
    /\ results[100][1] # results[101][1]
    /\ results[1] = results[101]

\* C3: convert_to_surl returns one SURL per URL of the file, in the order of
\* the file, and the SURL of a URL that holds "/pnfs" is the canonical prefix
\* followed by the URL's text from its first "/pnfs" on.
C3_PrefixReplaced ==
    pc = "check_status_list" =>
        /\ Len(surls) = Len(urls)
        /\ \A j \in 1..Len(urls) :
              MarkerAt(urls[j]) # {} =>
                  surls[j] = "srm://srm.grid.sara.nl:8443" \o FromMarker(urls[j])

C3_Witness ==
    /\ pc = "check_status_list"
    /\ Len(urls) = 99
    /\ urls[1] = "/pnfs/a/file1"
    /\ surls[1] = "srm://srm.grid.sara.nl:8443/pnfs/a/file1"
    /\ urls[2] = "gsiftp://host/pnfs/b/file2"
    /\ surls[2] = "srm://srm.grid.sara.nl:8443/pnfs/b/file2"
    /\ urls[3] = "srm://h/pnfs/c/pnfs/d"
    /\ surls[3] = "srm://srm.grid.sara.nl:8443/pnfs/c/pnfs/d"
    /\ urls[5] = urls[1]

\* the results whose status is exactly ONLINE or ONLINE_AND_NEARLINE
DiskResident(res) ==
    {j \in 1..Len(res) : res[j][2] \in {"ONLINE", "ONLINE_AND_NEARLINE"}}

\* C4: for a list of N >= 1 results, percent_staged ends normally and reports
\* 100 * S / N, S the number of results whose status is exactly ONLINE or
\* ONLINE_AND_NEARLINE; the value lies in [0, 100].
C4_PercentOfStaged ==
    (pc # "percent_staged" /\ Len(results) >= 1) =>
        /\ pc = "exit"
        /\ Len(percent) = 2
        /\ percent[2] > 0
        /\ percent[1] * Len(results) = 100 * Cardinality(DiskResident(results)) * percent[2]
        /\ 0 <= percent[1]
        /\ percent[1] <= 100 * percent[2]
        /\ out = <<<<percent, " percent of files staged">>>>

C4_Witness ==
    /\ pc = "exit"
    /\ Len(results) = 3
    /\ Cardinality(DiskResident(results)) = 2
    /\ \E j \in 1..3 : results[j][2] = "NEARLINE"
    /\ \E j \in 1..3 : results[j][2] = "ONLINE"
    /\ \E j \in 1..3 : results[j][2] = "ONLINE_AND_NEARLINE"

\* C5: with no URL in the file the run does not end in a division by zero:
\* aggregation fails with NoInputError.
C5_EmptyFailsWithNoInputError ==
    /\ err # "ZeroDivisionError"
    /\ (pc = "raised" /\ err # "IOError" /\ surls = <<>>) => err = "NoInputError"

\* C6: when gfal2 cannot be imported or no context can be created, the run
\* ends at its start: it never gets to reading the file, to check_status_list
\* or to percent_staged.
C6_FailsAtStart ==
    (gfal2 = "undefined" \/ (gfal2 = "module" /\ ~contextOk)) =>
        /\ pc \notin {"check_status_list", "while", "for", "sleep", "percent_staged", "exit"}
        /\ err \notin {"IOError", "ZeroDivisionError"}

\* C7: once the backend was asked for a SURL and the lookup failed (a query
\* without a result), the run has ended with that failure: the j queries
\* issued are those of the first j SURLs, each once, the failed one the last;
\* no pause came after it; nothing was returned and no summary line printed.
C7_LookupFailureAborts ==
    Len(queries) # Len(results) =>
        /\ pc = "raised"
        /\ err = "GError:getxattr"
        /\ Len(queries) = Len(results) + 1
        /\ Len(queries) <= Len(surls)
        /\ \A j \in 1..Len(queries) : queries[j][1] = surls[j]
        /\ sincePause >= 1
        /\ pauses = Len(results) \div 100
        /\ percent = <<>>
        /\ ret = <<>>
        /\ Len(out) = Len(results)
        /\ \A j \in 1..Len(out) : out[j] \in STRING

C7_Witness ==
    /\ pc = "raised"
    /\ err = "GError:getxattr"
    /\ Len(queries) = 101
    /\ Len(results) = 100
    /\ pauses = 1

\* C8: check_status called with verbose=False, when the backend answers,
\* returns the pair of the SURL and its status and prints nothing.
C8_QuietCallReturns ==
    (pc # "check_status" /\ ~verbose /\ queries # <<>> /\ err # "GError:getxattr") =>
        /\ pc = "returned"
        /\ ret = <<sc, backend[sc]>>
        /\ out = <<>>
        /\ queries = <<<<sc, "user.status">>>>

\* C9: a pause follows every batch: at most 100 queries are issued between
\* two pauses and before the first, the queries before a pause are whole
\* batches of 100 (or, after the last pause, the whole list), a batch starts
\* with no query pending since the last pause, and when check_status_list
\* returns every query, those of a short last batch too, was followed by a pause.
C9_PauseAfterEveryBatch ==
    LET paused == Len(queries) - sincePause
    IN  /\ sincePause <= 100
        /\ paused = Min(100 * pauses, Len(surls))
        /\ pauses = Batches(paused)
        /\ (pc = "for" /\ n = 0) => sincePause = 0
        /\ ListReturned => sincePause = 0

C9_Witness ==
    /\ pc = "while"
    /\ Len(surls) = 101
    /\ i = 200
    /\ Len(queries) = 101
    /\ pauses = 2
    /\ sincePause = 0

\* C10: a URL without "/pnfs" is passed through unchanged; its SURL is never
\* the bare canonical prefix.
C10_NoMarkerPassedThrough ==
    pc = "check_status_list" =>
        \A j \in 1..Len(urls) :
            MarkerAt(urls[j]) = {} =>
                /\ surls[j] = urls[j]
                /\ surls[j] # "srm://srm.grid.sara.nl:8443"

=============================================================================
